---------------------------- MODULE Spec2Model ----------------------------
(***************************************************************************)
(* Model of src/driver.c: the loopback receiver.  main() initialises       *)
(* Winsock, creates a TCP socket, connects to 127.0.0.1:12345, prints what *)
(* recv() delivers until recv() returns 0 or SOCKET_ERROR, then closes the *)
(* socket and releases Winsock.                                            *)
(*                                                                         *)
(* The program is single-threaded; pc is the position of main().  The      *)
(* operating system and the peer are the environment: the Winsock          *)
(* reference count, the table of open socket handles, the listener, and    *)
(* the TCP byte stream (wire, rcvd, peer_closed, net_error).               *)
(* Bytes are integers 0..255; 0 is the C string terminator.                *)
(***************************************************************************)
EXTENDS Integers, Sequences, FiniteSets, TLC

VARIABLES
    pc,          \* position of main(): the next statement to run
    sock,        \* SOCKET sock              (driver.c:10)
    server,      \* struct sockaddr_in server (driver.c:11)
    buffer,      \* char buffer[BUFFER_SIZE]  (driver.c:12)
    recv_size,   \* int recv_size             (driver.c:13)
    beyond,      \* the stack bytes that follow buffer, up to their first 0 byte
    out,         \* standard output: the printf calls made, in order
    status,      \* << >> while main() runs, <<code>> once it has returned
    wsa_refs,    \* OS: Winsock initialisation count of the process
    handles,     \* OS: the socket handles the process holds open
    listeners,   \* OS: endpoints on which some process listens
    wire,        \* peer: every byte the peer has sent on the connection
    rcvd,        \* OS: how many bytes of wire recv() has delivered
    peer_closed, \* peer: it has closed its end (FIN)
    net_error,   \* OS: the connection is broken (reset)
    sends,       \* peer: number of writes made
    trace,       \* history: the library calls made, each with its outcome
    run,         \* 1: first execution; 2: second execution against the same outcomes
    script,      \* the outcomes of run 1, replayed to run 2
    saved        \* run 1: the formats it printed, its exit status, its stack bytes

vars == << pc, sock, server, buffer, recv_size, beyond, out, status, wsa_refs, handles,
           listeners, wire, rcvd, peer_closed, net_error, sends, trace, run,
           script, saved >>

progVars == << pc, sock, server, buffer, recv_size, beyond, out, status >>
peerVars == << wire, rcvd, peer_closed, net_error, sends >>
twiceVars == << run, script, saved >>

(***************************************************************************)
(* Program constants.                                                      *)
(***************************************************************************)
PORT == 12345
BUFFER_SIZE == 256
\* winsock2.h: SOCKET_ERROR is (-1); INVALID_SOCKET is (SOCKET)(~0), all bits
\* set, written -1 here.
SOCKET_ERROR == -1
INVALID_SOCKET == -1
\* "127.0.0.1", as its four numbers.
LOOPBACK == <<127, 0, 0, 1>>

\* The printf format strings of main().
MSG_WSA_FAILED == "WSAStartup failed.\n"
MSG_SOCKET_FAILED == "Socket creation failed.\n"
MSG_CONNECT_FAILED == "Connection failed.\n"
MSG_CONNECTED == "Connected to Gameboy emulator.\n"
MSG_RECEIVED == "Received from Gameboy emulator: %s\n"
MSG_RECV_FAILED == "Receive failed.\n"

(***************************************************************************)
(* Bounds of the model.                                                    *)
(***************************************************************************)
MaxSends == 1      \* writes the peer makes on one connection
\* The sizes of a write of the peer: a short one, and a burst larger than
\* the buffer.
SendSizes == {2, BUFFER_SIZE + 1}
\* recv() returns all it can (the bytes pending, at most the length asked
\* for), or this many bytes fewer.
Shortfalls == {0, 1}

\* What an uninitialised stack byte can hold: zero (a fresh stack page) or
\* a fill pattern / leftover (0xCC is the debug build's fill).
GarbageBytes == {0, 204}
\* Payload bytes are never 0 and never a garbage value.
PayloadByte(i) == (i % 200) + 1

Min(S) == CHOOSE x \in S : \A y \in S : x <= y
Minimum(a, b) == IF a <= b THEN a ELSE b

(***************************************************************************)
(* Library functions that compute.                                         *)
(***************************************************************************)
\* htons(): host (little-endian) to network byte order of a 16-bit value.
Htons(p) == (p % 256) * 256 + (p \div 256)
\* The kernel reads sin_port back in network byte order.
Ntohs(p) == (p % 256) * 256 + (p \div 256)
\* inet_addr(): dotted quad (its four numbers) to the 32-bit address whose
\* bytes in memory are d[1] d[2] d[3] d[4].
InetAddr(d) == d[1] + 256 * d[2] + 65536 * d[3] + 16777216 * d[4]

\* printf's %s conversion: the bytes of mem before its first 0 byte.
CStr(mem) ==
    LET nul == {i \in 1..Len(mem) : mem[i] = 0}
    IN  IF nul = {} THEN mem ELSE SubSeq(mem, 1, Min(nul) - 1)

\* The bytes that follow buffer on the stack, up to their first 0 byte.
\* They are the frame's other words and the return address, which hold a
\* 0 byte within a few bytes, so the over-read of an unterminated
\* buffer stops there.  No callee writes above main()'s frame: they are
\* the same for the whole run.
StackTails == {<< >>, <<204>>}

\* printf(fmt, arg) appends one message to standard output.
Printf(fmt, arg) == Append(out, [fmt |-> fmt, arg |-> arg])

\* The message types of an output: the format of each printf call.
Fmts(o) == [i \in 1..Len(o) |-> o[i].fmt]

\* recv() stores the chunk at the start of buf and leaves the rest of buf
\* as it was.
StoreChunk(buf, chunk) ==
    [i \in 1..BUFFER_SIZE |-> IF i <= Len(chunk) THEN chunk[i] ELSE buf[i]]

\* Mutant of RecvLen: the length asked for is one more than the buffer holds.
RecvLenOffByOne == BUFFER_SIZE + 1

\* The third argument of recv(): the length main() asks for.
RecvLen == BUFFER_SIZE

(***************************************************************************)
(* The environment's answers.  In run 1 a call may end in any outcome the  *)
(* operating system can give; in run 2 it ends as the same call ended in   *)
(* run 1.                                                                  *)
(***************************************************************************)
Outcome(r, d) == [ret |-> r, data |-> d]

Outcomes(op, choices) ==
    IF run = 1 THEN choices
    ELSE IF Len(trace) < Len(script) /\ script[Len(trace) + 1].op = op
         THEN {Outcome(script[Len(trace) + 1].ret, script[Len(trace) + 1].data)}
         ELSE {}

Log(op, o) == Append(trace, [op |-> op, ret |-> o.ret, data |-> o.data])

\* WSAStartup returns 0 or an error code (WSASYSNOTREADY).
StartupResults == {Outcome(r, << >>) : r \in {0, 10091}}

\* socket() returns a handle the process does not hold yet, or INVALID_SOCKET.
SocketResults == {Outcome(r, << >>) : r \in ({260} \ handles) \cup {INVALID_SOCKET}}

\* connect() returns 0 only if somebody listens at the address asked for.
ConnectResults(sa) ==
    {Outcome(SOCKET_ERROR, << >>)} \cup
    (IF \E l \in listeners : InetAddr(l.addr) = sa.sin_addr /\ l.port = Ntohs(sa.sin_port)
     THEN {Outcome(0, << >>)} ELSE {})

\* recv(s, buf, len, 0) on a TCP stream: the error if the connection is
\* broken; else the next n bytes of the stream, 1 <= n <= len, if any are
\* pending; else 0 if the peer has closed; else it blocks.
RecvResults(len) ==
    LET avail == Len(wire) - rcvd
        m == Minimum(len, avail)
    IN  IF net_error THEN {Outcome(SOCKET_ERROR, << >>)}
        ELSE IF avail > 0
             THEN {Outcome(n, SubSeq(wire, rcvd + 1, rcvd + n)) :
                       n \in {m - d : d \in Shortfalls} \cap (1..m)}
             ELSE IF peer_closed THEN {Outcome(0, << >>)} ELSE {}

(***************************************************************************)
(* Initial state: main() is entered; nothing is initialised.               *)
(***************************************************************************)
\* The locals at entry (driver.c:9-13): none is initialised, each holds
\* garbage.  (The garbage of sock and of server is one value: socket()'s
\* result is assigned to sock at line 22 and server's fields at lines
\* 28-30 in the statements that first use them.)
GarbageInts == {0, -1}
GarbageBuffers == {[i \in 1..BUFFER_SIZE |-> g] : g \in GarbageBytes}

ProgInit ==
    /\ pc = "WSAStartup"
    /\ sock = INVALID_SOCKET
    /\ server = [sin_family |-> 0, sin_addr |-> 0, sin_port |-> 0]
    /\ buffer \in GarbageBuffers
    /\ recv_size \in GarbageInts
    /\ beyond \in StackTails
    /\ out = << >>
    /\ status = << >>

Init ==
    /\ ProgInit
    /\ wsa_refs = 0
    /\ handles = {}
    /\ listeners \in {{}, {[addr |-> LOOPBACK, port |-> PORT]}}
    /\ wire = << >>
    /\ rcvd = 0
    /\ peer_closed = FALSE
    /\ net_error = FALSE
    /\ sends = 0
    /\ trace = << >>
    /\ run = 1
    /\ script = << >>
    /\ saved = [fmts |-> << >>, status |-> << >>, beyond |-> << >>]

(***************************************************************************)
(* main(), one action per statement.                                       *)
(***************************************************************************)
\* driver.c:16-19
WSAStartupCall ==
    /\ pc = "WSAStartup"
    /\ \E o \in Outcomes("WSAStartup", StartupResults) :
          /\ trace' = Log("WSAStartup", o)
          /\ IF o.ret # 0
             THEN /\ out' = Printf(MSG_WSA_FAILED, << >>)
                  /\ status' = <<1>>
                  /\ pc' = "done"
                  /\ UNCHANGED wsa_refs
             ELSE /\ wsa_refs' = wsa_refs + 1
                  /\ pc' = "socket"
                  /\ UNCHANGED << out, status >>
    /\ UNCHANGED << sock, server, buffer, recv_size, beyond, handles, listeners >>
    /\ UNCHANGED << peerVars, twiceVars >>

\* Mutant of SocketCall: a failed socket() is tried again.
SocketCallRetry ==
    /\ pc = "socket"
    /\ \E o \in Outcomes("socket", SocketResults) :
          /\ trace' = Log("socket", o)
          /\ sock' = o.ret
          /\ IF o.ret = INVALID_SOCKET
             THEN /\ out' = Printf(MSG_SOCKET_FAILED, << >>)
                  /\ pc' = "socket"
                  /\ UNCHANGED << handles, status >>
             ELSE /\ handles' = handles \cup {o.ret}
                  /\ pc' = "connect"
                  /\ UNCHANGED << out, status >>
    /\ UNCHANGED << server, buffer, recv_size, beyond, wsa_refs, listeners >>
    /\ UNCHANGED << peerVars, twiceVars >>

\* driver.c:22-25
SocketCall ==
    /\ pc = "socket"
    /\ \E o \in Outcomes("socket", SocketResults) :
          /\ trace' = Log("socket", o)
          /\ sock' = o.ret
          /\ IF o.ret = INVALID_SOCKET
             THEN /\ out' = Printf(MSG_SOCKET_FAILED, << >>)
                  /\ status' = <<1>>
                  /\ pc' = "done"
                  /\ UNCHANGED handles
             ELSE /\ handles' = handles \cup {o.ret}
                  /\ pc' = "connect"
                  /\ UNCHANGED << out, status >>
    /\ UNCHANGED << server, buffer, recv_size, beyond, wsa_refs, listeners >>
    /\ UNCHANGED << peerVars, twiceVars >>

\* driver.c:28-30
ServerAddress ==
    [sin_family |-> 2, sin_addr |-> InetAddr(LOOPBACK), sin_port |-> Htons(PORT)]

\* Mutant of ConnectCall: the failure branch lacks its return.
ConnectCallFallsThrough ==
    /\ pc = "connect"
    /\ server' = ServerAddress
    /\ \E o \in Outcomes("connect", ConnectResults(ServerAddress)) :
          /\ trace' = Log("connect", o)
          /\ out' = IF o.ret < 0
                    THEN Append(Printf(MSG_CONNECT_FAILED, << >>),
                                [fmt |-> MSG_CONNECTED, arg |-> << >>])
                    ELSE Printf(MSG_CONNECTED, << >>)
          /\ pc' = "recv"
          /\ UNCHANGED status
    /\ UNCHANGED << sock, buffer, recv_size, beyond, wsa_refs, handles, listeners >>
    /\ UNCHANGED << peerVars, twiceVars >>

\* driver.c:28-38
ConnectCall ==
    /\ pc = "connect"
    /\ server' = ServerAddress
    /\ \E o \in Outcomes("connect", ConnectResults(ServerAddress)) :
          /\ trace' = Log("connect", o)
          /\ IF o.ret < 0
             THEN /\ out' = Printf(MSG_CONNECT_FAILED, << >>)
                  /\ status' = <<1>>
                  /\ pc' = "done"
             ELSE /\ out' = Printf(MSG_CONNECTED, << >>)
                  /\ pc' = "recv"
                  /\ UNCHANGED status
    /\ UNCHANGED << sock, buffer, recv_size, beyond, wsa_refs, handles, listeners >>
    /\ UNCHANGED << peerVars, twiceVars >>

\* Mutant of RecvCall: recv() is called again after it failed.
RecvCallRetry ==
    /\ pc = "recv"
    /\ \E o \in Outcomes("recv", RecvResults(RecvLen)) :
          /\ trace' = Log("recv", o)
          /\ recv_size' = o.ret
          /\ buffer' = StoreChunk(buffer, o.data)
          /\ rcvd' = rcvd + Len(o.data)
          /\ pc' = IF o.ret > 0 THEN "print" ELSE IF o.ret = 0 THEN "check" ELSE "recv"
    /\ UNCHANGED << sock, server, beyond, out, status, wsa_refs, handles, listeners >>
    /\ UNCHANGED << wire, peer_closed, net_error, sends, twiceVars >>

\* Mutant of RecvCall: the result of recv() is tested but not assigned to
\* recv_size, which line 45 then reads uninitialised.
RecvCallNoAssign ==
    /\ pc = "recv"
    /\ \E o \in Outcomes("recv", RecvResults(RecvLen)) :
          /\ trace' = Log("recv", o)
          /\ buffer' = StoreChunk(buffer, o.data)
          /\ rcvd' = rcvd + Len(o.data)
          /\ pc' = IF o.ret > 0 THEN "print" ELSE "check"
    /\ UNCHANGED << sock, server, recv_size, beyond, out, status, wsa_refs, handles,
                    listeners >>
    /\ UNCHANGED << wire, peer_closed, net_error, sends, twiceVars >>

\* Mutant of RecvCall: the loop goes on only after a full buffer, taking a
\* short read for the end of the stream.
RecvCallShortRead ==
    /\ pc = "recv"
    /\ \E o \in Outcomes("recv", RecvResults(RecvLen)) :
          /\ trace' = Log("recv", o)
          /\ recv_size' = o.ret
          /\ buffer' = StoreChunk(buffer, o.data)
          /\ rcvd' = rcvd + Len(o.data)
          /\ pc' = IF o.ret >= BUFFER_SIZE THEN "print" ELSE "check"
    /\ UNCHANGED << sock, server, beyond, out, status, wsa_refs, handles, listeners >>
    /\ UNCHANGED << wire, peer_closed, net_error, sends, twiceVars >>

\* driver.c:41: the recv() call and the loop test
RecvCall ==
    /\ pc = "recv"
    /\ \E o \in Outcomes("recv", RecvResults(RecvLen)) :
          /\ trace' = Log("recv", o)
          /\ recv_size' = o.ret
          /\ buffer' = StoreChunk(buffer, o.data)
          /\ rcvd' = rcvd + Len(o.data)
          /\ pc' = IF o.ret > 0 THEN "print" ELSE "check"
    /\ UNCHANGED << sock, server, beyond, out, status, wsa_refs, handles, listeners >>
    /\ UNCHANGED << wire, peer_closed, net_error, sends, twiceVars >>

\* driver.c:42: %s reads buffer up to its first 0 byte, and past the end of
\* buffer if it holds none.
PrintData ==
    /\ pc = "print"
    /\ out' = Printf(MSG_RECEIVED, CStr(buffer \o beyond))
    /\ pc' = "recv"
    /\ UNCHANGED << sock, server, buffer, recv_size, beyond, status, wsa_refs, handles,
                    listeners, trace >>
    /\ UNCHANGED << peerVars, twiceVars >>

\* Mutant of CheckRecv: the receive-failed branch returns 1.
CheckRecvReturns1 ==
    /\ pc = "check"
    /\ IF recv_size = SOCKET_ERROR
       THEN /\ out' = Printf(MSG_RECV_FAILED, << >>)
            /\ status' = <<1>>
            /\ pc' = "done"
       ELSE /\ pc' = "closesocket"
            /\ UNCHANGED << out, status >>
    /\ UNCHANGED << sock, server, buffer, recv_size, beyond, wsa_refs, handles,
                    listeners, trace >>
    /\ UNCHANGED << peerVars, twiceVars >>

\* Mutant of CheckRecv: the test is recv_size <= 0, so that a graceful close
\* is reported as a failure.
CheckRecvLe ==
    /\ pc = "check"
    /\ out' = IF recv_size <= 0 THEN Printf(MSG_RECV_FAILED, << >>) ELSE out
    /\ pc' = "closesocket"
    /\ UNCHANGED << sock, server, buffer, recv_size, beyond, status, wsa_refs, handles,
                    listeners, trace >>
    /\ UNCHANGED << peerVars, twiceVars >>

\* driver.c:45-47
CheckRecv ==
    /\ pc = "check"
    /\ out' = IF recv_size = SOCKET_ERROR THEN Printf(MSG_RECV_FAILED, << >>) ELSE out
    /\ pc' = "closesocket"
    /\ UNCHANGED << sock, server, buffer, recv_size, beyond, status, wsa_refs, handles,
                    listeners, trace >>
    /\ UNCHANGED << peerVars, twiceVars >>

\* driver.c:49
CloseSocketCall ==
    /\ pc = "closesocket"
    /\ handles' = handles \ {sock}
    /\ trace' = Log("closesocket", Outcome(0, << >>))
    /\ pc' = "WSACleanup"
    /\ UNCHANGED << sock, server, buffer, recv_size, beyond, out, status, wsa_refs, listeners >>
    /\ UNCHANGED << peerVars, twiceVars >>

\* driver.c:50-52
WSACleanupCall ==
    /\ pc = "WSACleanup"
    /\ wsa_refs' = wsa_refs - 1
    /\ trace' = Log("WSACleanup", Outcome(0, << >>))
    /\ status' = <<0>>
    /\ pc' = "done"
    /\ UNCHANGED << sock, server, buffer, recv_size, beyond, out, handles, listeners >>
    /\ UNCHANGED << peerVars, twiceVars >>

Program ==
    \/ WSAStartupCall
    \/ SocketCall
    \/ ConnectCall
    \/ RecvCall
    \/ PrintData
    \/ CheckRecv
    \/ CloseSocketCall
    \/ WSACleanupCall

(***************************************************************************)
(* The peer and the network, while main() waits in recv().                 *)
(***************************************************************************)
PayloadKinds == {"text", "cstring"}

\* k bytes written by the peer at stream offset base: text holds no 0 byte,
\* a cstring ends with one.
Payload(kind, base, k) ==
    [i \in 1..k |-> IF kind = "cstring" /\ i = k THEN 0 ELSE PayloadByte(base + i)]

\* The peer writes: at most MaxSends times, and again only once the bytes
\* of its earlier writes have been delivered.
PeerSend ==
    /\ run = 1 /\ pc = "recv"
    /\ ~peer_closed /\ ~net_error
    /\ sends < MaxSends
    /\ rcvd = Len(wire)
    /\ \E k \in SendSizes, kind \in PayloadKinds :
          wire' = wire \o Payload(kind, Len(wire), k)
    /\ sends' = sends + 1
    /\ UNCHANGED << progVars, wsa_refs, handles, listeners, rcvd, peer_closed,
                    net_error, trace, twiceVars >>

PeerClose ==
    /\ run = 1 /\ pc = "recv"
    /\ ~peer_closed /\ ~net_error
    /\ peer_closed' = TRUE
    /\ UNCHANGED << progVars, wsa_refs, handles, listeners, wire, rcvd,
                    net_error, sends, trace, twiceVars >>

NetError ==
    /\ run = 1 /\ pc = "recv"
    /\ ~net_error
    /\ net_error' = TRUE
    /\ UNCHANGED << progVars, wsa_refs, handles, listeners, wire, rcvd,
                    peer_closed, sends, trace, twiceVars >>

Next ==
    \/ Program
    \/ PeerSend
    \/ PeerClose
    \/ NetError

Spec == Init /\ [][Next]_vars

(***************************************************************************)
(* Running the program a second time against the same environment: the    *)
(* process starts afresh (new garbage in its locals, nothing held), and    *)
(* every library call ends as it did in run 1.                             *)
(***************************************************************************)
Rerun ==
    /\ run = 1 /\ pc = "done"
    /\ run' = 2
    /\ script' = trace
    /\ saved' = [fmts |-> Fmts(out), status |-> status, beyond |-> beyond]
    /\ pc' = "WSAStartup"
    /\ sock' = INVALID_SOCKET
    /\ server' = [sin_family |-> 0, sin_addr |-> 0, sin_port |-> 0]
    /\ buffer' \in GarbageBuffers
    /\ recv_size' \in GarbageInts
    /\ beyond' \in StackTails
    /\ out' = << >>
    /\ status' = << >>
    /\ wsa_refs' = 0
    /\ handles' = {}
    /\ trace' = << >>
    /\ rcvd' = 0
    /\ UNCHANGED << listeners, wire, peer_closed, net_error, sends >>

NextTwice ==
    \/ Next
    \/ Rerun

SpecTwice == Init /\ [][NextTwice]_vars

(***************************************************************************)
(* Fairness: main() runs on (a call that can return does return), and the  *)
(* peer eventually closes the connection or the connection breaks.         *)
(***************************************************************************)
SpecFair == Spec /\ WF_vars(Program) /\ WF_vars(PeerClose \/ NetError)

(***************************************************************************)
(* What the claims speak of, read off the history.                         *)
(***************************************************************************)
Last(q) == q[Len(q)]
IsPrefix(a, b) == Len(a) <= Len(b) /\ SubSeq(b, 1, Len(a)) = a
Count(o, fmt) == Cardinality({i \in 1..Len(o) : o[i].fmt = fmt})
Called(op) == {i \in 1..Len(trace) : trace[i].op = op}

IsChunk(e) == e.op = "recv" /\ e.ret > 0
IsData(m) == m.fmt = MSG_RECEIVED
\* The receive calls that returned bytes, and the received-data messages.
Chunks == SelectSeq(trace, IsChunk)
DataMsgs == SelectSeq(out, IsData)

RECURSIVE Concat(_)
Concat(q) == IF q = << >> THEN << >> ELSE Head(q).data \o Concat(Tail(q))

StartupFailed == \E i \in Called("WSAStartup") : trace[i].ret # 0
SocketFailed == \E i \in Called("socket") : trace[i].ret = INVALID_SOCKET
ConnectFailed == \E i \in Called("connect") : trace[i].ret < 0
RecvFailed == \E i \in Called("recv") : trace[i].ret = SOCKET_ERROR
PeerCloseSeen == \E i \in Called("recv") : trace[i].ret = 0
Teardown == {"check", "closesocket", "WSACleanup", "done"}
InLoop == pc \in {"recv", "print"}

(***************************************************************************)
(* C1.  In every terminated run the exit code is 1 if and only if          *)
(* WSAStartup, socket or connect failed, and 0 otherwise; a run whose      *)
(* receive loop ended with a socket error exits with 0.                    *)
(***************************************************************************)
C1_ExitCode ==
    /\ (pc = "done") <=> (status # << >>)
    /\ pc = "done" =>
          /\ status \in {<<0>>, <<1>>}
          /\ (status = <<1>>) <=> (StartupFailed \/ SocketFailed \/ ConnectFailed)
          /\ RecvFailed => status = <<0>>
          /\ PeerCloseSeen => status = <<0>>

C1_Witness == pc = "done" /\ RecvFailed /\ status = <<0>>

(***************************************************************************)
(* C2.  When the peer accepts, delivers N >= 0 chunks and closes           *)
(* gracefully, the output is the connection-success message followed by    *)
(* exactly N received-data messages, the i-th printed for the i-th chunk,  *)
(* no error message, and the exit code is 0.  (The i-th message starts     *)
(* with the i-th chunk's bytes up to its first 0 byte; at every moment     *)
(* there is one message per chunk received, but for the chunk about to be  *)
(* printed.)                                                               *)
(***************************************************************************)
C2_GracefulOutput ==
    /\ Len(DataMsgs) = Len(Chunks) - (IF pc = "print" THEN 1 ELSE 0)
    /\ \A i \in 1..Len(DataMsgs) : IsPrefix(CStr(Chunks[i].data), DataMsgs[i].arg)
    /\ (pc = "done" /\ PeerCloseSeen) =>
          /\ Fmts(out) = <<MSG_CONNECTED>> \o [i \in 1..Len(Chunks) |-> MSG_RECEIVED]
          /\ status = <<0>>

C2_Witness == pc = "done" /\ PeerCloseSeen /\ Len(Chunks) >= 2 /\ Len(DataMsgs) = Len(Chunks)

(***************************************************************************)
(* C3.  When connect fails, the program prints the connection-failure      *)
(* message and exits with 1; the success message is not printed, recv is   *)
(* never called and no received-data message is printed.  Without a        *)
(* listener connect does fail.                                             *)
(***************************************************************************)
C3_ConnectFailure ==
    /\ ConnectFailed =>
          /\ pc = "done"
          /\ status = <<1>>
          /\ out = << [fmt |-> MSG_CONNECT_FAILED, arg |-> << >>] >>
          /\ Called("recv") = {}
          /\ Last(trace).op = "connect"
    /\ (listeners = {} /\ Called("connect") # {}) => ConnectFailed

C3_Witness == ConnectFailed /\ listeners = {} /\ pc = "done"

(***************************************************************************)
(* C4.  Every receive call returns at most 256 bytes, which it stores at   *)
(* the start of the buffer, and the chunks of the successive receive calls *)
(* put end to end are the bytes the peer sent, in order: all of them once  *)
(* recv has returned 0.                                                    *)
(***************************************************************************)
C4_StreamIntegrity ==
    /\ \A i \in Called("recv") :
          /\ trace[i].ret <= BUFFER_SIZE
          /\ trace[i].ret > 0 => Len(trace[i].data) = trace[i].ret
    /\ Concat(Chunks) = SubSeq(wire, 1, rcvd)
    /\ PeerCloseSeen => Concat(Chunks) = wire
    /\ pc = "print" =>
          /\ recv_size = Last(trace).ret
          /\ SubSeq(buffer, 1, recv_size) = Last(trace).data

C4_Witness ==
    /\ pc = "done" /\ PeerCloseSeen
    /\ Len(wire) > BUFFER_SIZE
    /\ \E i \in Called("recv") : trace[i].ret = BUFFER_SIZE

(***************************************************************************)
(* C5.  After a receive call signalled a socket error the program prints   *)
(* the receive-failure message exactly once, calls recv no more, closes    *)
(* the socket, then releases Winsock, and exits with 0.  After recv        *)
(* returned 0 it does the same but prints no receive-failure message.      *)
(***************************************************************************)
C5_RecvError ==
    /\ \A i \in Called("recv") : trace[i].ret <= 0 => Called("recv") \subseteq 1..i
    /\ RecvFailed =>
          /\ pc \in Teardown
          /\ Count(out, MSG_RECV_FAILED) = (IF pc = "check" THEN 0 ELSE 1)
          /\ pc # "check" => Last(out).fmt = MSG_RECV_FAILED
    /\ ~RecvFailed => Count(out, MSG_RECV_FAILED) = 0
    /\ PeerCloseSeen => pc \in Teardown
    /\ ((RecvFailed \/ PeerCloseSeen) /\ pc = "done") =>
          /\ status = <<0>>
          /\ handles = {}
          /\ wsa_refs = 0
          /\ trace[Len(trace) - 2].op = "recv"
          /\ trace[Len(trace) - 1].op = "closesocket"
          /\ trace[Len(trace)].op = "WSACleanup"

C5_Witness == pc = "done" /\ RecvFailed /\ Len(Chunks) >= 1 /\ handles = {}

(***************************************************************************)
(* C6.  In every terminated state the socket handle is closed, and at no   *)
(* point is more than one connection handle open.                          *)
(***************************************************************************)
C6_HandleClosedAtExit ==
    /\ pc = "done" => handles = {}
    /\ Cardinality(handles) <= 1

(***************************************************************************)
(* C7.  WSAStartup, socket and connect are each called at most once, in    *)
(* that order, each only after the one before it succeeded; recv is called *)
(* only after connect succeeded and the success message was printed;       *)
(* closesocket and WSACleanup are called in that order, only after the     *)
(* receive loop has ended, and no call follows WSACleanup.                 *)
(***************************************************************************)
C7_StrictSequence ==
    \A i \in 1..Len(trace) :
        LET op == trace[i].op IN
        /\ (op = "WSAStartup") <=> (i = 1)
        /\ (op = "socket") <=> (i = 2)
        /\ (op = "connect") <=> (i = 3)
        /\ i = 2 => trace[1].ret = 0
        /\ i = 3 => trace[2].ret # INVALID_SOCKET
        /\ op = "recv" =>
              /\ trace[3].ret = 0
              /\ out # << >> /\ out[1].fmt = MSG_CONNECTED
              /\ \A j \in 4..(i - 1) : IsChunk(trace[j])
        /\ op = "closesocket" =>
              /\ trace[i - 1].op = "recv" /\ trace[i - 1].ret <= 0
        /\ op = "WSACleanup" =>
              /\ trace[i - 1].op = "closesocket"
              /\ i = Len(trace)
        /\ op \in {"WSAStartup", "socket", "connect", "recv", "closesocket", "WSACleanup"}

C7_Witness == pc = "done" /\ Last(trace).op = "WSACleanup" /\ Len(Chunks) >= 1 /\ Len(trace) >= 7

(***************************************************************************)
(* C8.  A second run against the same sequence of environment outcomes     *)
(* (the results of WSAStartup, socket, connect and of each recv) takes the *)
(* same calls, prints the same sequence of message types and exits with    *)
(* the same code as the first, whatever garbage its uninitialised locals   *)
(* and the stack hold.                                                     *)
(***************************************************************************)
C8_SameOutcomesSameOutput ==
    run = 2 =>
        /\ IsPrefix(trace, script)
        /\ IsPrefix(Fmts(out), saved.fmts)
        /\ pc # "done" => ENABLED Program
        /\ pc = "done" =>
              /\ trace = script
              /\ Fmts(out) = saved.fmts
              /\ status = saved.status

\* The second run printed a message that the first run, whose stack held
\* other bytes after buffer, printed with another text.
C8_Witness ==
    /\ run = 2 /\ pc = "done"
    /\ beyond # saved.beyond
    /\ \E i \in 1..Len(DataMsgs) : Len(DataMsgs[i].arg) > BUFFER_SIZE
    /\ Fmts(out) = saved.fmts

(***************************************************************************)
(* C9.  The received-data message printed for a receive call that returned *)
(* n > 0 bytes consists of exactly those n bytes.                          *)
(***************************************************************************)
C9_MessageIsChunk ==
    \A i \in 1..Len(DataMsgs) :
        i <= Len(Chunks) /\ DataMsgs[i].arg = Chunks[i].data

(***************************************************************************)
(* C10.  Once connected, the program leaves the receive loop only when a   *)
(* receive call returns 0 or a socket error, and after a receive call that *)
(* returned bytes it prints and calls recv again; when every call that can *)
(* return does and the peer eventually closes or the connection breaks,    *)
(* the program terminates.                                                 *)
(***************************************************************************)
C10_LoopEndsOnCloseOrError ==
    /\ [][(InLoop /\ ~InLoop') =>
             /\ pc = "recv" /\ pc' = "check"
             /\ Len(trace') = Len(trace) + 1
             /\ Last(trace').op = "recv" /\ Last(trace').ret <= 0]_vars
    /\ [][(pc = "recv" /\ Len(trace') = Len(trace) + 1 /\ Last(trace').ret > 0) =>
             pc' = "print"]_vars
    /\ [][pc = "print" => pc' = "recv"]_vars
    /\ (pc = "recv") ~> (pc = "done")

C10_Witness == pc = "done" /\ Len(Chunks) >= 2 /\ sends = MaxSends /\ wsa_refs = 0

=============================================================================
